---- MODULE Spec2Model ----
(***************************************************************************)
(* Model of the parallel adaptive subdivision engine of libfive:           *)
(* WorkerPool<T, Neighbors, N>::build and WorkerPool<T, Neighbors, N>::run *)
(* (src/libfive/src/render/brep/worker_pool.cpp).                          *)
(*                                                                         *)
(* The cell tree operations evalInterval, evalLeaf and collectChildren,    *)
(* and the ProgressWatcher, are declared and called in worker_pool.cpp but *)
(* their bodies live in other files; they are modelled from their          *)
(* description in spec.md (sections 4.2, 4.3, 4.4).                         *)
(***************************************************************************)
EXTENDS Integers, Sequences, FiniteSets, TLC

(***************************************************************************)
(* Program constant: the dimension N of the instantiation                  *)
(* WorkerPool<HybridTree<2>, HybridNeighbors<2>, 2>.  A cell that          *)
(* subdivides gets 1 << N children (t->children.size()): four here, eight  *)
(* in the N = 3 instantiations.                                            *)
(***************************************************************************)
N == 2

(***************************************************************************)
(* Bounds of the model: the level of the root region, the number of        *)
(* workers, and the number of AMBIGUOUS cells of the input: with the       *)
(* progress watcher running (MaxAmbiguous) and in the builds without a     *)
(* progress callback (MaxDeepAmbiguous), which reach nested subdivisions.  *)
(***************************************************************************)
MaxLevel == 2
MaxWorkers == 2
MaxAmbiguous == 1
MaxDeepAmbiguous == 2

RECURSIVE Pow2(_)
Pow2(n) == IF n = 0 THEN 1 ELSE 2 * Pow2(n - 1)

(* t->children.size() == 1 << N *)
NumChildren == Pow2(N)

ChildIdx == 0 .. (NumChildren - 1)

(***************************************************************************)
(* Cells are addressed by their path from the root: <<>> is the root,      *)
(* Append(c, i) is children[i] of c.  NullCell is nullptr.                 *)
(***************************************************************************)
NullCell == << -1 >>

RECURSIVE PathsOfLen(_)
PathsOfLen(n) ==
    IF n = 0 THEN { << >> }
    ELSE { Append(p, i) : p \in PathsOfLen(n - 1), i \in ChildIdx }

Cells == UNION { PathsOfLen(n) : n \in 0 .. MaxLevel }

RootCell == << >>

(* t->parent *)
Parent(c) == IF c = RootCell THEN NullCell ELSE SubSeq(c, 1, Len(c) - 1)

(* t->parent_index *)
ParentIndex(c) == c[Len(c)]

(* object_pool.get(t, i, rs[i]) : the i-th child of t *)
Child(c, i) == Append(c, i)

ChildrenOf(c) == { Child(c, i) : i \in ChildIdx }

Workers == 1 .. MaxWorkers

VARIABLES
    rootLevel,   \* region.level of the root region (region_.withResolution)
    workers,     \* the argument `workers` of build
    ambiguous,   \* input: the cells that evalInterval classifies AMBIGUOUS
    mergeable,   \* input: the parents that collectChildren is able to merge
    watched,     \* input: a progress callback was given (progress != nullptr)
    cancel,      \* std::atomic_bool& cancel
    done,        \* std::atomic_bool done
    tasks,       \* LockFreeStack tasks (top of the stack is the last element)
    local,       \* per worker: std::stack<Task> local
    pc,          \* per worker: position in run
    cur,         \* per worker: the cell pointer t of run (task.target, then its ancestors)
    idx,         \* per worker: the index i of the loop that pushes the children
    type,        \* per cell: t->type
    children,    \* per cell: the populated slots of t->children
    created,     \* the cells that were allocated (root, object_pool.get)
    leafDone,    \* the cells whose evalLeaf has run
    pending,     \* per cell: the outstanding-children counter used by collectChildren
    collects,    \* per cell: how many times the collection was performed
    merged,      \* the parents that collectChildren merged into a single cell
    finished,    \* the cells whose task ran to the end of its evaluation
    evals,       \* per cell: how many times a worker evaluated it
    ticksTotal,  \* uint64_t ticks computed by build
    counter,     \* ProgressWatcher: the tick counter
    wpc,         \* ProgressWatcher thread: position
    wlast,       \* ProgressWatcher thread: the counter value it last reported
    calls,       \* progress_callback: has it been called (progress.size() > 0)
    first,       \* progress_callback: the first value passed (progress[0])
    prev,        \* progress_callback: the last value passed
    increasing,  \* progress_callback: every value so far exceeded the one before
    rootLock,    \* std::mutex root_lock: the worker holding it, or 0
    claims,      \* per worker: how many times root.claim(object_pool) ran
    bpc,         \* the thread running build: position
    result       \* what build returned: "none" (not yet), "empty" (Root<T>()), "out"

vars == << rootLevel, workers, ambiguous, mergeable, watched, cancel, done, tasks,
           local, pc, cur, idx, type, children, created, leafDone, pending,
           collects, merged, finished, evals, ticksTotal, counter, wpc,
           wlast, calls, first, prev, increasing, rootLock, claims, bpc, result >>

inputVars == << rootLevel, workers, ambiguous, mergeable, watched, ticksTotal >>

(* task.region.level: subdivide() lowers the level by one per generation *)
Level(c) == rootLevel - Len(c)

(***************************************************************************)
(* The tick count of a subtree:                                            *)
(*   for (int i=0; i <= region.level; ++i) ticks = (ticks + 1) * (1 << N)  *)
(***************************************************************************)
(* variant: the loop stops one level early, i < region.level *)
RECURSIVE TickLoopExclusive(_, _, _)
TickLoopExclusive(ticks, i, level) ==
    IF i < level
    THEN TickLoopExclusive((ticks + 1) * Pow2(N), i + 1, level)
    ELSE ticks

RECURSIVE TickLoop(_, _, _)
TickLoop(ticks, i, level) ==
    IF i <= level
    THEN TickLoop((ticks + 1) * Pow2(N), i + 1, level)
    ELSE ticks

SubtreeTicks(level) == TickLoop(0, 0, level)

(***************************************************************************)
(* evalInterval's classification of a cell, deterministic in the region:   *)
(* the input says which regions straddle the surface; of the others, the   *)
(* root region and the regions of child index 0 lie inside the shape.      *)
(***************************************************************************)
Classify(c) ==
    IF c \in ambiguous THEN "AMBIGUOUS"
    ELSE IF c = RootCell \/ ParentIndex(c) = 0 THEN "FILLED"
    ELSE "EMPTY"

(* the type evalInterval leaves in the cell (spec.md 4.2: sets target.type) *)
TypeAfterInterval(c) == Classify(c)

(***************************************************************************)
(* the type evalLeaf leaves in the cell: spec.md 3 and 4.2 have the type   *)
(* set by interval evaluation and evalLeaf populate the leaf payload, so   *)
(* the type is the one the cell had.                                       *)
(***************************************************************************)
TypeAfterLeaf(c, old) == old

(* LockFreeStack tasks(workers): the number of preallocated nodes *)
Capacity == workers


(* The workers that build spawns: futures[0 .. workers-1] *)
Active == 1 .. workers

(***************************************************************************)
(* The inputs of a build.  The AMBIGUOUS cells form a set closed under     *)
(* Parent (a cell exists only when its parent subdivided) of cells with    *)
(* level > 0 (evalInterval is called on no other cell).                    *)
(***************************************************************************)
AmbiguousIdx == { 0, NumChildren - 1 }

AmbiguousCandidates(S) ==
    IF S = {} THEN { c \in { RootCell } : Level(c) > 0 }
    ELSE { c \in { Child(p, i) : p \in S, i \in AmbiguousIdx } :
             Level(c) > 0 /\ c \notin S }

RECURSIVE AmbiguousSets(_)
AmbiguousSets(k) ==
    IF k = 0 THEN { {} }
    ELSE LET smaller == AmbiguousSets(k - 1)
         IN  smaller \cup
             UNION { { S \cup { c } : c \in AmbiguousCandidates(S) } : S \in smaller }

(***************************************************************************)
(* The state when build has pushed the root task, computed the tick total, *)
(* started the progress watcher and spawned the workers (lines 44-74).     *)
(***************************************************************************)
InitWith(maxAmbiguous, callback) ==
    /\ rootLevel \in 0 .. MaxLevel
    /\ workers \in 1 .. MaxWorkers
    /\ ambiguous \in AmbiguousSets(maxAmbiguous)
    /\ mergeable \in SUBSET ambiguous
    /\ watched = callback
    /\ cancel = FALSE
    /\ done = FALSE
    /\ tasks = << RootCell >>
    /\ local = [w \in Workers |-> << >>]
    /\ pc = [w \in Workers |-> IF w \in Active THEN "head" ELSE "unused"]
    /\ cur = [w \in Workers |-> NullCell]
    /\ idx = [w \in Workers |-> 0]
    /\ type = [c \in Cells |-> "UNKNOWN"]
    /\ children = [c \in Cells |-> {}]
    /\ created = { RootCell }
    /\ leafDone = {}
    /\ pending = [c \in Cells |-> NumChildren]
    /\ collects = [c \in Cells |-> 0]
    /\ merged = {}
    /\ finished = {}
    /\ evals = [c \in Cells |-> 0]
    /\ ticksTotal = SubtreeTicks(rootLevel)
    /\ counter = 0
    /\ wpc = IF callback THEN "start" ELSE "none"
    /\ wlast = 0
    /\ calls = FALSE
    /\ first = -1
    /\ prev = -1
    /\ increasing = TRUE
    /\ rootLock = 0
    /\ claims = [w \in Workers |-> 0]
    /\ bpc = "join"
    /\ result = "none"

(* build called with a progress callback *)
Init == InitWith(MaxAmbiguous, TRUE)

(* build called without a progress callback: progress_watcher is nullptr *)
InitDeep == InitWith(MaxDeepAmbiguous, FALSE)

treeVars == << type, children, created, leafDone, pending, collects,
               merged, finished, evals >>
cbVars == << calls, first, prev, increasing >>
watchVars == << counter, wpc, wlast, cbVars >>
buildVars == << bpc, result >>

(***************************************************************************)
(* WorkerPool::run, the loop head: while (!done.load() && !cancel.load())  *)
(***************************************************************************)
LoopHeadDone(w) ==
    /\ pc[w] = "head"
    /\ pc' = [pc EXCEPT ![w] = IF done THEN "store_done" ELSE "head_cancel"]
    /\ UNCHANGED << inputVars, cancel, done, tasks, local, cur, idx, treeVars,
                    watchVars, rootLock, claims, buildVars >>

(* variant: the loop condition does not look at cancel *)
LoopHeadWithoutCancel(w) ==
    /\ pc[w] = "head_cancel"
    /\ pc' = [pc EXCEPT ![w] = "take"]
    /\ UNCHANGED << inputVars, cancel, done, tasks, local, cur, idx, treeVars,
                    watchVars, rootLock, claims, buildVars >>

LoopHeadCancel(w) ==
    /\ pc[w] = "head_cancel"
    /\ pc' = [pc EXCEPT ![w] = IF cancel THEN "store_done" ELSE "take"]
    /\ UNCHANGED << inputVars, cancel, done, tasks, local, cur, idx, treeVars,
                    watchVars, rootLock, claims, buildVars >>

(* variant: the local task is read with top() but never popped *)
TakeLocalKeep(w) ==
    /\ pc[w] = "take"
    /\ Len(local[w]) > 0
    /\ cur' = [cur EXCEPT ![w] = local[w][Len(local[w])]]
    /\ pc' = [pc EXCEPT ![w] = "eval"]
    /\ UNCHANGED << inputVars, cancel, done, tasks, local, idx, treeVars, watchVars,
                    rootLock, claims, buildVars >>

(* if (local.size()) { task = local.top(); local.pop(); } *)
TakeLocal(w) ==
    /\ pc[w] = "take"
    /\ Len(local[w]) > 0
    /\ cur' = [cur EXCEPT ![w] = local[w][Len(local[w])]]
    /\ local' = [local EXCEPT ![w] = SubSeq(local[w], 1, Len(local[w]) - 1)]
    /\ pc' = [pc EXCEPT ![w] = "eval"]
    /\ UNCHANGED << inputVars, cancel, done, tasks, idx, treeVars, watchVars,
                    rootLock, claims, buildVars >>

(* variant: the shared stack is consulted before the local one *)
PopSharedFirst(w) ==
    /\ pc[w] = "take"
    /\ Len(tasks) > 0
    /\ cur' = [cur EXCEPT ![w] = tasks[Len(tasks)]]
    /\ tasks' = SubSeq(tasks, 1, Len(tasks) - 1)
    /\ pc' = [pc EXCEPT ![w] = "eval"]
    /\ UNCHANGED << inputVars, cancel, done, local, idx, treeVars, watchVars,
                    rootLock, claims, buildVars >>

(* else if (!tasks.pop(task)) ... : the pop succeeds *)
PopShared(w) ==
    /\ pc[w] = "take"
    /\ Len(local[w]) = 0
    /\ Len(tasks) > 0
    /\ cur' = [cur EXCEPT ![w] = tasks[Len(tasks)]]
    /\ tasks' = SubSeq(tasks, 1, Len(tasks) - 1)
    /\ pc' = [pc EXCEPT ![w] = "eval"]
    /\ UNCHANGED << inputVars, cancel, done, local, idx, treeVars, watchVars,
                    rootLock, claims, buildVars >>

(* the pop fails: task.target = nullptr; offerWait; continue *)
PopFail(w) ==
    /\ pc[w] = "take"
    /\ Len(local[w]) = 0
    /\ Len(tasks) = 0
    /\ pc' = [pc EXCEPT ![w] = "head"]
    /\ UNCHANGED << inputVars, cancel, done, tasks, local, cur, idx, treeVars,
                    watchVars, rootLock, claims, buildVars >>

(* const bool can_subdivide = region.level > 0 *)
CanSubdivide(c) == Level(c) > 0

(* variant: every cell that is not EMPTY is subdivided *)
SubdividesUnlessEmpty(t) == t # "EMPTY"

(* if (t->type == Interval::AMBIGUOUS): the cell gets children *)
Subdivides(t) == t = "AMBIGUOUS"

(***************************************************************************)
(* tape = t->evalInterval(eval, task.tape, region, object_pool):           *)
(* sets t->type (spec.md 4.2); then the branch on AMBIGUOUS.               *)
(***************************************************************************)
(* variant: the evaluators of the workers disagree on a region *)
EvalIntervalPerWorker(w) ==
    /\ pc[w] = "eval"
    /\ CanSubdivide(cur[w])
    /\ type' = [type EXCEPT ![cur[w]] =
                   IF w > 1 /\ TypeAfterInterval(cur[w]) = "EMPTY" THEN "FILLED"
                   ELSE TypeAfterInterval(cur[w])]
    /\ evals' = [evals EXCEPT ![cur[w]] = @ + 1]
    /\ pc' = [pc EXCEPT ![w] = IF Subdivides(type'[cur[w]]) THEN "push" ELSE "tick"]
    /\ idx' = [idx EXCEPT ![w] = 0]
    /\ UNCHANGED << inputVars, cancel, done, tasks, local, cur, children, created,
                    leafDone, pending, collects, merged, finished,
                    watchVars, rootLock, claims, buildVars >>

EvalInterval(w) ==
    /\ pc[w] = "eval"
    /\ CanSubdivide(cur[w])
    /\ type' = [type EXCEPT ![cur[w]] = TypeAfterInterval(cur[w])]
    /\ evals' = [evals EXCEPT ![cur[w]] = @ + 1]
    /\ pc' = [pc EXCEPT ![w] = IF Subdivides(type'[cur[w]]) THEN "push" ELSE "tick"]
    /\ idx' = [idx EXCEPT ![w] = 0]
    /\ UNCHANGED << inputVars, cancel, done, tasks, local, cur, children, created,
                    leafDone, pending, collects, merged, finished,
                    watchVars, rootLock, claims, buildVars >>

(***************************************************************************)
(* t->evalLeaf(eval, tape, region, object_pool, neighbors): populates the  *)
(* leaf payload of a level-0 cell (spec.md 4.2).                           *)
(***************************************************************************)
EvalLeaf(w) ==
    /\ pc[w] = "eval"
    /\ ~CanSubdivide(cur[w])
    /\ leafDone' = leafDone \cup { cur[w] }
    /\ type' = [type EXCEPT ![cur[w]] = TypeAfterLeaf(cur[w], @)]
    /\ evals' = [evals EXCEPT ![cur[w]] = @ + 1]
    /\ pc' = [pc EXCEPT ![w] = "tick"]
    /\ UNCHANGED << inputVars, cancel, done, tasks, local, cur, idx, children,
                    created, pending, collects, merged, finished,
                    watchVars, rootLock, claims, buildVars >>

(* variant: the shared stack grows on demand, bounded_push never fails *)
BoundedPushUnbounded == TRUE

(* tasks.bounded_push(next) succeeds iff a preallocated node is free *)
BoundedPushOk == Len(tasks) < Capacity

(***************************************************************************)
(* One iteration of the loop over t->children: allocate child i from the   *)
(* object pool, push its task to the shared stack or, when that is full,   *)
(* to the local stack; after the last child, continue.                     *)
(***************************************************************************)
(* variant: a child pushed to the shared stack is pushed to the local one too *)
PushChildTwice(w) ==
    LET t == cur[w]
        next == Child(t, idx[w])
        last == idx[w] + 1 = NumChildren
    IN  /\ pc[w] = "push"
        /\ created' = created \cup { next }
        /\ children' = [children EXCEPT ![t] = @ \cup { idx[w] }]
        /\ tasks' = IF BoundedPushOk THEN Append(tasks, next) ELSE tasks
        /\ local' = [local EXCEPT ![w] = Append(@, next)]
        /\ idx' = [idx EXCEPT ![w] = IF last THEN 0 ELSE @ + 1]
        /\ pc' = [pc EXCEPT ![w] = IF last THEN "head" ELSE "push"]
        /\ cur' = [cur EXCEPT ![w] = IF last THEN NullCell ELSE t]
        /\ UNCHANGED << inputVars, cancel, done, type, leafDone, pending, collects,
                        merged, finished, evals, watchVars, rootLock,
                        claims, buildVars >>

PushChild(w) ==
    LET t == cur[w]
        next == Child(t, idx[w])
        last == idx[w] + 1 = NumChildren
    IN  /\ pc[w] = "push"
        /\ created' = created \cup { next }
        /\ children' = [children EXCEPT ![t] = @ \cup { idx[w] }]
        /\ IF BoundedPushOk
           THEN /\ tasks' = Append(tasks, next)
                /\ local' = local
           ELSE /\ local' = [local EXCEPT ![w] = Append(@, next)]
                /\ tasks' = tasks
        /\ idx' = [idx EXCEPT ![w] = IF last THEN 0 ELSE @ + 1]
        /\ pc' = [pc EXCEPT ![w] = IF last THEN "head" ELSE "push"]
        /\ cur' = [cur EXCEPT ![w] = IF last THEN NullCell ELSE t]
        /\ UNCHANGED << inputVars, cancel, done, type, leafDone, pending, collects,
                        merged, finished, evals, watchVars, rootLock,
                        claims, buildVars >>

(* variant: a homogeneous cell reports the subtree of its parent's level *)
EvalTicksParentLevel(c) ==
    IF CanSubdivide(c) THEN SubtreeTicks(Level(c) + 1) ELSE 1

(* the ticks a finished evaluation reports: lines 192-206 *)
EvalTicks(c) == IF CanSubdivide(c) THEN SubtreeTicks(Level(c)) ELSE 1

(***************************************************************************)
(* progress->tick(...) after an EMPTY / FILLED interval evaluation or a    *)
(* leaf evaluation, then up(): t = t->parent.                              *)
(***************************************************************************)
Tick(w) ==
    /\ pc[w] = "tick"
    /\ counter' = IF watched THEN counter + EvalTicks(cur[w]) ELSE counter
    /\ finished' = finished \cup { cur[w] }
    /\ cur' = [cur EXCEPT ![w] = Parent(cur[w])]
    /\ pc' = [pc EXCEPT ![w] = "bubble"]
    /\ UNCHANGED << inputVars, cancel, done, tasks, local, idx, type, children,
                    created, leafDone, pending, collects, merged,
                    evals, wpc, wlast, cbVars, rootLock, claims, buildVars >>

(***************************************************************************)
(* t->collectChildren(eval, tape, region, object_pool, max_err), spec.md   *)
(* 4.3 and 9: the call decrements the parent's outstanding-children        *)
(* counter; the call that drives it to 0 performs the collection, which    *)
(* returns true iff the parent was merged into a single cell.              *)
(***************************************************************************)
IsLastChild(t) == pending[t] - 1 = 0

CollectReturns(t) == IsLastChild(t) /\ t \in mergeable

(***************************************************************************)
(* while (t != nullptr && t->collectChildren(...)) : one call.  When it    *)
(* returns false the iteration ends with t != nullptr and the worker loops.*)
(***************************************************************************)
(* variant: the worker breaks out of its loop whenever the bubble-up ends *)
CollectChildrenThenBreak(w) ==
    LET t == cur[w]
    IN  /\ pc[w] = "bubble"
        /\ t # NullCell
        /\ pending' = [pending EXCEPT ![t] = @ - 1]
        /\ IF IsLastChild(t)
           THEN collects' = [collects EXCEPT ![t] = @ + 1]
           ELSE collects' = collects
        /\ IF CollectReturns(t)
           THEN /\ merged' = merged \cup { t }
                /\ children' = [children EXCEPT ![t] = {}]
                /\ pc' = [pc EXCEPT ![w] = "collect_tick"]
                /\ cur' = cur
           ELSE /\ pc' = [pc EXCEPT ![w] = "store_done"]
                /\ cur' = [cur EXCEPT ![w] = NullCell]
                /\ UNCHANGED << merged, children >>
        /\ UNCHANGED << inputVars, cancel, done, tasks, local, idx, type, created,
                        leafDone, finished, evals, watchVars, rootLock,
                        claims, buildVars >>

CollectChildren(w) ==
    LET t == cur[w]
    IN  /\ pc[w] = "bubble"
        /\ t # NullCell
        /\ pending' = [pending EXCEPT ![t] = @ - 1]
        /\ IF IsLastChild(t)
           THEN collects' = [collects EXCEPT ![t] = @ + 1]
           ELSE collects' = collects
        /\ IF CollectReturns(t)
           THEN /\ merged' = merged \cup { t }
                /\ children' = [children EXCEPT ![t] = {}]
                /\ pc' = [pc EXCEPT ![w] = "collect_tick"]
                /\ cur' = cur
           ELSE /\ pc' = [pc EXCEPT ![w] = "head"]
                /\ cur' = [cur EXCEPT ![w] = NullCell]
                /\ UNCHANGED << merged, children >>
        /\ UNCHANGED << inputVars, cancel, done, tasks, local, idx, type, created,
                        leafDone, finished, evals, watchVars, rootLock,
                        claims, buildVars >>

(* progress->tick(); up(); inside the bubble-up loop *)
CollectTick(w) ==
    /\ pc[w] = "collect_tick"
    /\ counter' = IF watched THEN counter + 1 ELSE counter
    /\ finished' = finished \cup { cur[w] }
    /\ cur' = [cur EXCEPT ![w] = Parent(cur[w])]
    /\ pc' = [pc EXCEPT ![w] = "bubble"]
    /\ UNCHANGED << inputVars, cancel, done, tasks, local, idx, type, children,
                    created, leafDone, pending, collects, merged,
                    evals, wpc, wlast, cbVars, rootLock, claims, buildVars >>

(* variant: the worker breaks as soon as its bubble-up stops *)
BreakAfterBubble(w) ==
    /\ pc[w] = "bubble"
    /\ pc' = [pc EXCEPT ![w] = "store_done"]
    /\ UNCHANGED << inputVars, cancel, done, tasks, local, cur, idx, treeVars,
                    watchVars, rootLock, claims, buildVars >>

(* if (t == nullptr) break; *)
BubbledPastRoot(w) ==
    /\ pc[w] = "bubble"
    /\ cur[w] = NullCell
    /\ pc' = [pc EXCEPT ![w] = "store_done"]
    /\ UNCHANGED << inputVars, cancel, done, tasks, local, cur, idx, treeVars,
                    watchVars, rootLock, claims, buildVars >>

(* done.store(true) *)
StoreDone(w) ==
    /\ pc[w] = "store_done"
    /\ done' = TRUE
    /\ pc' = [pc EXCEPT ![w] = "lock"]
    /\ UNCHANGED << inputVars, cancel, tasks, local, cur, idx, treeVars, watchVars,
                    rootLock, claims, buildVars >>

(* variant: root.claim is entered without taking root_lock *)
LockRootUnguarded(w) ==
    /\ pc[w] = "lock"
    /\ rootLock' = w
    /\ pc' = [pc EXCEPT ![w] = "claim"]
    /\ UNCHANGED << inputVars, cancel, done, tasks, local, cur, idx, treeVars,
                    watchVars, claims, buildVars >>

(* std::lock_guard<std::mutex> lock(root_lock) *)
LockRoot(w) ==
    /\ pc[w] = "lock"
    /\ rootLock = 0
    /\ rootLock' = w
    /\ pc' = [pc EXCEPT ![w] = "claim"]
    /\ UNCHANGED << inputVars, cancel, done, tasks, local, cur, idx, treeVars,
                    watchVars, claims, buildVars >>

(* root.claim(object_pool); the lock_guard releases root_lock; run returns *)
ClaimPool(w) ==
    /\ pc[w] = "claim"
    /\ claims' = [claims EXCEPT ![w] = @ + 1]
    /\ rootLock' = 0
    /\ pc' = [pc EXCEPT ![w] = "exited"]
    /\ UNCHANGED << inputVars, cancel, done, tasks, local, cur, idx, type, children,
                    created, leafDone, pending, collects, merged,
                    finished, evals, watchVars, buildVars >>

Worker(w) ==
    \/ LoopHeadDone(w)
    \/ LoopHeadCancel(w)
    \/ TakeLocal(w)
    \/ PopShared(w)
    \/ PopFail(w)
    \/ EvalInterval(w)
    \/ EvalLeaf(w)
    \/ PushChild(w)
    \/ Tick(w)
    \/ CollectChildren(w)
    \/ CollectTick(w)
    \/ BubbledPastRoot(w)
    \/ StoreDone(w)
    \/ LockRoot(w)
    \/ ClaimPool(w)


(***************************************************************************)
(* The progress watcher, ProgressWatcher::build(ticks, 0, callback, done,  *)
(* cancel), from spec.md 4.4: a thread that first reports 0.0, then, until *)
(* done or cancel is set, reads the tick counter and reports               *)
(* counter / total when the counter has moved, and last reports the        *)
(* terminal value 1.0 unless cancel is set.  A reported value v stands     *)
(* for v / ticksTotal.                                                     *)
(***************************************************************************)
(***************************************************************************)
(* progress_callback(v), as the test observes it: the values are recorded  *)
(* and then walked with prev, requiring p > prev at each (mesh.cpp).       *)
(***************************************************************************)
Callback(v) ==
    /\ calls' = TRUE
    /\ first' = IF calls THEN first ELSE v
    /\ increasing' = (increasing /\ v > prev)
    /\ prev' = v

WatcherStart ==
    /\ wpc = "start"
    /\ Callback(0)
    /\ wpc' = "check"
    /\ UNCHANGED << inputVars, cancel, done, tasks, local, pc, cur, idx, treeVars,
                    counter, wlast, rootLock, claims, buildVars >>

WatcherCheck ==
    /\ wpc = "check"
    /\ wpc' = IF done \/ cancel THEN "final" ELSE "poll"
    /\ UNCHANGED << inputVars, cancel, done, tasks, local, pc, cur, idx, treeVars,
                    counter, wlast, cbVars, rootLock, claims, buildVars >>

WatcherPoll ==
    /\ wpc = "poll"
    /\ wlast' = counter
    /\ IF counter # wlast THEN Callback(counter) ELSE UNCHANGED cbVars
    /\ wpc' = "check"
    /\ UNCHANGED << inputVars, cancel, done, tasks, local, pc, cur, idx, treeVars,
                    counter, rootLock, claims, buildVars >>

(* variant: the terminal value is reported whatever made the loop end *)
WatcherFinalOnDone ==
    /\ wpc = "final"
    /\ Callback(ticksTotal)
    /\ wpc' = "exited"
    /\ UNCHANGED << inputVars, cancel, done, tasks, local, pc, cur, idx, treeVars,
                    counter, wlast, rootLock, claims, buildVars >>

WatcherFinal ==
    /\ wpc = "final"
    /\ IF cancel THEN UNCHANGED cbVars ELSE Callback(ticksTotal)
    /\ wpc' = "exited"
    /\ UNCHANGED << inputVars, cancel, done, tasks, local, pc, cur, idx, treeVars,
                    counter, wlast, rootLock, claims, buildVars >>

Watcher == WatcherStart \/ WatcherCheck \/ WatcherPoll \/ WatcherFinal

(***************************************************************************)
(* WorkerPool::build after spawning the workers, lines 76-94.              *)
(***************************************************************************)
(* for (auto& f : futures) f.get(); *)
BuildJoin ==
    /\ bpc = "join"
    /\ \A w \in Active : pc[w] = "exited"
    /\ bpc' = "delete"
    /\ UNCHANGED << inputVars, cancel, done, tasks, local, pc, cur, idx, treeVars,
                    watchVars, rootLock, claims, result >>

(* delete progress_watcher: waits for the watcher thread *)
BuildDeleteWatcher ==
    /\ bpc = "delete"
    /\ watched => wpc = "exited"
    /\ bpc' = "return"
    /\ UNCHANGED << inputVars, cancel, done, tasks, local, pc, cur, idx, treeVars,
                    watchVars, rootLock, claims, result >>

(* variant: build returns the tree without looking at cancel *)
ReturnedWithoutCancel(c) == "out"

(* if (cancel.load()) return Root<T>(); else return out; *)
Returned(c) == IF c THEN "empty" ELSE "out"

BuildReturn ==
    /\ bpc = "return"
    /\ result' = Returned(cancel)
    /\ bpc' = "returned"
    /\ UNCHANGED << inputVars, cancel, done, tasks, local, pc, cur, idx, treeVars,
                    watchVars, rootLock, claims >>

Build == BuildJoin \/ BuildDeleteWatcher \/ BuildReturn

(* The caller of build sets the cancel flag it passed by reference *)
SetCancel ==
    /\ ~cancel
    /\ bpc # "returned"
    /\ cancel' = TRUE
    /\ UNCHANGED << inputVars, done, tasks, local, pc, cur, idx, treeVars,
                    watchVars, rootLock, claims, buildVars >>

Next ==
    \/ \E w \in Active : Worker(w)
    \/ Watcher
    \/ Build
    \/ SetCancel

Spec == Init /\ [][Next]_vars

(* The builds without a progress callback: no watcher thread exists *)
NextDeep ==
    \/ \E w \in Active : Worker(w)
    \/ Build
    \/ SetCancel

SpecDeep == InitDeep /\ [][NextDeep]_vars

(***************************************************************************)
(* Scheduling: the workers (std::async with std::launch::async), the       *)
(* watcher and the thread in build are operating-system threads, each of   *)
(* which keeps running while it has a step to take.  Nothing obliges the   *)
(* caller to set cancel.                                                   *)
(***************************************************************************)
Fairness ==
    /\ \A w \in Workers : WF_vars(Worker(w))
    /\ WF_vars(Watcher)
    /\ WF_vars(Build)

FairSpec == Init /\ [][Next]_vars /\ Fairness

(***************************************************************************)
(* C1: in a build where cancel is never set, under fair scheduling, build  *)
(* terminates whatever evalInterval and collectChildren answer: some       *)
(* worker bubbles past the root and sets done, the others leave their      *)
(* loops, and build returns.                                               *)
(***************************************************************************)
BuildTerminates == ([]~cancel) => <>(bpc = "returned")

ReturnedTree == bpc = "returned" /\ result = "out"

(* the cells that were subdivided: AMBIGUOUS after their interval evaluation *)
Subdivided(c) == c \in created /\ type[c] = "AMBIGUOUS"

(* leaf-evaluated, classified EMPTY / FILLED, or collected *)
Completed(c) ==
    \/ c \in leafDone
    \/ type[c] \in { "EMPTY", "FILLED" }
    \/ collects[c] >= 1

(***************************************************************************)
(* C2: build never surfaces a partial tree.  When it returns a non-empty   *)
(* Root, the root cell is completed, every created cell has finished its   *)
(* evaluation and every subdivided cell has had its collection performed;  *)
(* when cancel is set as build returns, the returned Root is empty.        *)
(***************************************************************************)
NoPartialTree ==
    /\ ReturnedTree =>
         /\ Completed(RootCell)
         /\ \A c \in created : evals[c] >= 1 /\ c \in finished
         /\ \A c \in created : Subdivided(c) => collects[c] = 1
         /\ \A w \in Active : local[w] = << >>
         /\ tasks = << >>
    /\ (bpc = "returned" /\ cancel) => result = "empty"

NoPartialTreeWitness ==
    /\ ReturnedTree
    /\ workers = 2
    /\ \E c \in created : c # RootCell /\ Subdivided(c)

TickConservation == ReturnedTree => counter = ticksTotal

(***************************************************************************)
(* The tree of the sequential descent from the root, a function of the     *)
(* input alone (not of the workers or their interleaving).                 *)
(***************************************************************************)
RECURSIVE SeqCells(_)
SeqCells(c) ==
    { c } \cup
    IF Level(c) > 0 /\ c \in ambiguous
    THEN UNION { SeqCells(Child(c, i)) : i \in ChildIdx }
    ELSE {}

SeqType(c) == IF Level(c) > 0 THEN Classify(c) ELSE "UNKNOWN"

SeqSubdivided == { c \in SeqCells(RootCell) : c \in ambiguous /\ c \notin mergeable }

(***************************************************************************)
(* C5: determinism.  For a fixed input, every interleaving and every       *)
(* worker count end a non-cancelled build with the same tree: the cells,   *)
(* the type of each cell and the cells that keep their children are those  *)
(* of the sequential descent from the root.                                *)
(***************************************************************************)
Deterministic ==
    ReturnedTree =>
        /\ created = SeqCells(RootCell)
        /\ \A c \in created : type[c] = SeqType(c)
        /\ { c \in created : children[c] # {} } = SeqSubdivided

DeterministicWitness ==
    /\ ReturnedTree
    /\ workers = 2
    /\ Cardinality(created) = 1 + 2 * NumChildren
    /\ \E c \in created : type[c] = "EMPTY"

CollectCalledAfterChildren ==
    [][\A w \in Active :
          (pc[w] = "bubble" /\ cur[w] # NullCell
             /\ pending'[cur[w]] # pending[cur[w]]) =>
          \A ch \in ChildrenOf(cur[w]) : ch \in finished]_vars

(***************************************************************************)
(* C7, amended: collectChildren is called by every worker that finishes a  *)
(* child; the collection itself is never performed before all children of  *)
(* the parent were published, have completed their evaluations and, when   *)
(* they subdivided, have had their own collections performed.              *)
(***************************************************************************)
CollectionAfterChildren ==
    [][\A c \in Cells :
          collects'[c] # collects[c] =>
              /\ children[c] = ChildIdx
              /\ \A ch \in ChildrenOf(c) :
                    /\ ch \in created
                    /\ evals[ch] >= 1
                    /\ ch \in finished
                    /\ Subdivided(ch) => collects[ch] = 1
                    /\ \A w \in Active : cur[w] # ch]_vars

CollectionAfterChildrenWitness ==
    \E c \in created :
        /\ collects[c] = 1
        /\ \E ch \in ChildrenOf(c) : Subdivided(ch) /\ collects[ch] = 1

(***************************************************************************)
(* C8: classification coverage.  In the tree a non-cancelled build         *)
(* returns, no cell, level-0 cells included, has type UNKNOWN.             *)
(***************************************************************************)
ClassificationCoverage ==
    ReturnedTree => \A c \in created : type[c] \in { "EMPTY", "FILLED", "AMBIGUOUS" }

(***************************************************************************)
(* C9: subdivision discipline.  In every reachable state a cell has        *)
(* children only if it is AMBIGUOUS with level > 0; in the returned tree a *)
(* cell has all its children iff it was AMBIGUOUS with level > 0 and its   *)
(* collectChildren did not merge it.                                       *)
(***************************************************************************)
SubdivisionDiscipline ==
    /\ \A c \in Cells :
          children[c] # {} => (type[c] = "AMBIGUOUS" /\ Level(c) > 0)
    /\ ReturnedTree =>
          \A c \in created :
              (children[c] = ChildIdx) <=>
                  (type[c] = "AMBIGUOUS" /\ Level(c) > 0 /\ c \notin merged)

SubdivisionDisciplineWitness ==
    /\ ReturnedTree
    /\ \E c \in created : type[c] = "FILLED" /\ Level(c) > 0 /\ children[c] = {}
    /\ \E c \in created : type[c] = "AMBIGUOUS" /\ c \in merged /\ children[c] = {}

(***************************************************************************)
(* C10: progress monotonicity.  The values passed to progress_cb are       *)
(* strictly increasing, the first is 0.0 and, for a completed build, the   *)
(* last is the terminal value 1.0 (ticksTotal / ticksTotal).               *)
(***************************************************************************)
ProgressStrictlyIncreasing ==
    /\ increasing
    /\ calls => first = 0
    /\ (ReturnedTree /\ watched) => prev = ticksTotal

(* a worker is inside the interval evaluation of c *)
IntervalEvaluating(w, c) == pc[w] = "eval" /\ cur[w] = c /\ CanSubdivide(c)

(***************************************************************************)
(* C11: every cell is created with type UNKNOWN and changes to EMPTY,      *)
(* FILLED or AMBIGUOUS exactly once, by interval evaluation, before any    *)
(* task for one of its children is pushed; the type never changes again.   *)
(***************************************************************************)
TypeSetOnceByInterval ==
    /\ [](\A c \in created : evals[c] = 0 => type[c] = "UNKNOWN")
    /\ [][\A c \in Cells :
            type'[c] # type[c] =>
                /\ type[c] = "UNKNOWN"
                /\ type'[c] \in { "EMPTY", "FILLED", "AMBIGUOUS" }
                /\ \E w \in Active : IntervalEvaluating(w, c)]_vars
    /\ [](\A c \in created : children[c] # {} => type[c] # "UNKNOWN")
    /\ [](\A c \in created : c \in finished => type[c] # "UNKNOWN")

(* the places where a task for cell c is queued: 0 is the shared stack *)
Placements(c) ==
    { << 0, i >> : i \in { j \in 1..Len(tasks) : tasks[j] = c } }
        \cup UNION { { << w, i >> : i \in { j \in 1..Len(local[w]) : local[w][j] = c } }
                     : w \in Workers }

(* the workers that took the task of c and have not yet evaluated it *)
Holders(c) == { w \in Active : pc[w] = "eval" /\ cur[w] = c }

(***************************************************************************)
(* C12: every child task of an AMBIGUOUS cell is placed in exactly one     *)
(* place, on top of the shared stack when it has a free slot and otherwise *)
(* on top of the creating worker's local stack; no child is lost or        *)
(* duplicated; the shared stack never holds more tasks than its capacity.  *)
(***************************************************************************)
OverflowDiscipline ==
    /\ [](Len(tasks) <= Capacity)
    /\ [](\A c \in created \ { RootCell } :
            IF evals[c] > 0 \/ Holders(c) # {}
            THEN Placements(c) = {}
            ELSE Cardinality(Placements(c)) = 1)
    /\ [][\A c \in created' \ created :
            \E w \in Active :
                /\ pc[w] = "push"
                /\ cur[w] = Parent(c)
                /\ Placements(c)' =
                       IF Len(tasks) < Capacity
                       THEN { << 0, Len(tasks) + 1 >> }
                       ELSE { << w, Len(local[w]) + 1 >> }
                /\ \A d \in Cells \ { c } : Placements(d)' = Placements(d)]_vars

(* the shared stack is full and both workers hold overflow tasks *)
OverflowDisciplineWitness ==
    /\ workers = 2
    /\ Len(tasks) = Capacity
    /\ \A w \in Active : Len(local[w]) > 0

(***************************************************************************)
(* C13: a worker pops the shared stack only in an iteration in which its   *)
(* local stack is empty; while its local stack is non-empty it takes the   *)
(* most recently pushed local task and leaves the shared stack alone.      *)
(***************************************************************************)
LocalFirst ==
    /\ [][Len(tasks') < Len(tasks) =>
            \E w \in Active :
                /\ pc[w] = "take" /\ pc'[w] = "eval"
                /\ local[w] = << >>
                /\ cur'[w] = tasks[Len(tasks)]
                /\ tasks' = SubSeq(tasks, 1, Len(tasks) - 1)]_vars
    /\ [][\A w \in Active :
            (pc[w] = "take" /\ local[w] # << >>) =>
                \/ pc'[w] = "take" /\ local'[w] = local[w]
                \/ /\ pc'[w] = "eval"
                   /\ cur'[w] = local[w][Len(local[w])]
                   /\ local'[w] = SubSeq(local[w], 1, Len(local[w]) - 1)
                   /\ tasks' = tasks]_vars

(* the single worker took the last child it pushed to its local stack      *)
(* while the first child still waits in the shared stack                   *)
LocalFirstWitness ==
    /\ workers = 1
    /\ pc[1] = "eval"
    /\ cur[1] = << NumChildren - 1 >>
    /\ tasks = << << 0 >> >>
    /\ Len(local[1]) = NumChildren - 2

(* a worker between taking a task and the end of its bubble-up *)
InTask(w) == pc[w] \in { "eval", "push", "tick", "bubble", "collect_tick" }

(* a worker at a loop head that will read, or on the exit path that has    *)
(* read, the flags                                                         *)
AtHeadOrLeaving(w) ==
    pc[w] \in { "head", "head_cancel", "store_done", "lock", "claim", "exited" }

(***************************************************************************)
(* C14: cancel is observed only at the loop head.  A worker starts a task  *)
(* only after a loop-head check of the same iteration read cancel as       *)
(* unset, so after cancel is set it starts at most the one task of the     *)
(* iteration it is in; a worker that reaches a loop head with cancel set   *)
(* pops nothing and stays on the exit path; an evaluation in flight when   *)
(* cancel is set goes on to the end of its bubble-up.                      *)
(***************************************************************************)
CancelAtLoopHead ==
    /\ [][\A w \in Active :
            (pc'[w] = "take" /\ pc[w] # "take") =>
                pc[w] = "head_cancel" /\ ~cancel]_vars
    /\ [][\A w \in Active :
            (pc'[w] = "eval" /\ pc[w] # "eval") => pc[w] = "take"]_vars
    /\ [][\A w \in Active :
            (cancel /\ AtHeadOrLeaving(w)) =>
                /\ AtHeadOrLeaving(w)'
                /\ local'[w] = local[w]
                /\ cur'[w] = cur[w]]_vars
    /\ [][\A w \in Active :
            (cancel /\ InTask(w) /\ pc'[w] # pc[w]) =>
                \/ InTask(w)'
                \/ pc'[w] = "head"
                \/ pc[w] = "bubble" /\ cur[w] = NullCell /\ pc'[w] = "store_done"]_vars

(* one worker has left because of cancel while the other, which was in     *)
(* flight, is still reporting a collection of its bubble-up                *)
CancelAtLoopHeadWitness ==
    /\ cancel
    /\ \E w1, w2 \in Active : pc[w1] = "exited" /\ pc[w2] = "collect_tick"

(* the recurrence t_0 = 0, t_{i+1} = (t_i + 1) * 2^N: Recurrence(k) is t_k *)
RECURSIVE Recurrence(_)
Recurrence(k) == IF k = 0 THEN 0 ELSE (Recurrence(k - 1) + 1) * Pow2(N)

(***************************************************************************)
(* C15: the total tick count of a root of level L and the ticks reported   *)
(* for an EMPTY or FILLED cell of level l > 0 are the value the recurrence *)
(* t_{i+1} = (t_i + 1) * 2^N, t_0 = 0 yields when its last step is the one *)
(* for i = L (for i = l), that is t_{L+1} (t_{l+1}); a leaf evaluation     *)
(* reports 1 tick and each successful collectChildren reports 1 tick;      *)
(* nothing else moves the tick counter.                                    *)
(***************************************************************************)
TickArithmetic ==
    /\ [](ticksTotal = Recurrence(rootLevel + 1))
    /\ [][\A w \in Active :
            (pc[w] = "tick" /\ pc'[w] # "tick") =>
                IF Level(cur[w]) > 0
                THEN /\ type[cur[w]] \in { "EMPTY", "FILLED" }
                     /\ counter' - counter = Recurrence(Level(cur[w]) + 1)
                ELSE counter' - counter = 1]_vars
    /\ [][\A w \in Active :
            (pc[w] = "collect_tick" /\ pc'[w] # "collect_tick") =>
                counter' - counter = 1]_vars
    /\ [][counter' # counter =>
            \E w \in Active :
                pc[w] \in { "tick", "collect_tick" } /\ pc'[w] = "bubble"]_vars

(* below a root of level 2 a FILLED cell of level 1 has reported its       *)
(* t_2 = 20 ticks, out of a total of t_3 = 84                              *)
TickArithmeticWitness ==
    /\ rootLevel = 2
    /\ ticksTotal = 84
    /\ counter = 20
    /\ \E c \in finished : Level(c) = 1 /\ type[c] = "FILLED"

(***************************************************************************)
(* C16: every worker hands its object pool to the Root exactly once,       *)
(* whatever made it leave its loop; at most one worker is inside the       *)
(* claim at a time, and it holds root_lock; all workers have handed over   *)
(* before build gets past the join and returns.                            *)
(***************************************************************************)
PoolHandover ==
    /\ [](\A w \in Active : claims[w] = IF pc[w] = "exited" THEN 1 ELSE 0)
    /\ [](\A w1, w2 \in Active :
            (pc[w1] = "claim" /\ pc[w2] = "claim") => w1 = w2)
    /\ [](\A w \in Active : pc[w] = "claim" => rootLock = w)
    /\ [](bpc # "join" => \A w \in Active : claims[w] = 1)
    /\ [][\A w \in Active :
            claims'[w] # claims[w] =>
                pc[w] = "claim" /\ claims'[w] = claims[w] + 1]_vars

(* one worker is inside the claim while the other waits for root_lock *)
PoolHandoverWitness ==
    \E w1, w2 \in Active : pc[w1] = "claim" /\ pc[w2] = "lock"

TicksWithinBudget == counter <= ticksTotal

(* two workers have reported a subdivided root of level 2 completely: four *)
(* homogeneous children and the root's collection                          *)
TicksWithinBudgetWitness ==
    /\ workers = 2
    /\ rootLevel = 2
    /\ RootCell \in merged
    /\ counter = NumChildren * SubtreeTicks(1) + 1

(* the workers that are evaluating cell c or pushing its children *)
Evaluators(c) ==
    { w \in Active : cur[w] = c /\ pc[w] \in { "eval", "push", "tick" } }

(***************************************************************************)
(* C19: every cell, the root and every allocated child, is the target of   *)
(* exactly one task: it is queued once, or held by one worker, or has been *)
(* evaluated once; no cell is evaluated twice or by two workers at a time, *)
(* a cell that was never allocated has no task, and a build that returns   *)
(* without cancel has evaluated every allocated cell exactly once.         *)
(***************************************************************************)
OneTaskPerCell ==
    /\ \A c \in created :
         Cardinality(Placements(c)) + Cardinality(Holders(c)) + evals[c] = 1
    /\ \A c \in created : Cardinality(Evaluators(c)) <= 1
    /\ \A c \in Cells \ created :
         Placements(c) = {} /\ Evaluators(c) = {} /\ evals[c] = 0
    /\ (bpc = "returned" /\ ~cancel) => \A c \in created : evals[c] = 1

(* two workers have evaluated a nested tree and the build has returned *)
OneTaskPerCellWitness ==
    /\ bpc = "returned"
    /\ ~cancel
    /\ workers = 2
    /\ \E c \in created : Len(c) = 2

(***************************************************************************)
(* C20: while cancel is not set, the step that first makes done true is    *)
(* taken by a worker that bubbled past the root; at that moment the root   *)
(* is finished, the shared stack and every local stack are empty, and no   *)
(* other worker is inside a task.                                          *)
(***************************************************************************)
DoneOnlyWhenDrained ==
    [][(~cancel /\ ~done /\ done') =>
         /\ RootCell \in finished
         /\ tasks = << >>
         /\ \A w \in Active : local[w] = << >>
         /\ \E w \in Active :
              /\ pc[w] = "store_done" /\ pc'[w] = "lock"
              /\ cur[w] = NullCell
              /\ \A w2 \in Active \ { w } : ~InTask(w2)]_vars

(* done has just been stored, without cancel, after two workers evaluated  *)
(* a nested tree; the other worker is idle at its loop                     *)
DoneOnlyWhenDrainedWitness ==
    /\ done
    /\ ~cancel
    /\ workers = 2
    /\ \E c \in created : Len(c) = 2
    /\ \E w1, w2 \in Active :
         pc[w1] = "lock" /\ pc[w2] \in { "head", "head_cancel", "take" }

====
